---- MODULE Spec2Model ----
(***************************************************************************)
(* Model of the Blockfrost aggregation scripts of the repository:          *)
(*   code/token_holders/token_holders.py   (holder table of one token)     *)
(*   stake_addresses_v2.py                 (addresses of stake keys)       *)
(*   code/transaction/single_transaction.py (flow record of a transaction) *)
(* The remote API is the environment: every request is answered by a       *)
(* response the environment chooses.  Quantities are Python ints, Decimals *)
(* and floats; they are modelled at their real widths (arbitrary precision *)
(* naturals, IEEE-754 binary64 with a 53 bit significand).                 *)
(***************************************************************************)
EXTENDS Integers, Sequences, FiniteSets, TLC

\* F(v) and F(v, w) with the arguments evaluated once, before F is entered
With(v, F(_)) == CHOOSE out \in {F(x) : x \in {v}} : TRUE

With2(v, w, F(_, _)) == CHOOSE out \in {F(x, y) : x \in {v}, y \in {w}} : TRUE

(***************************************************************************)
(* Arbitrary precision naturals (Python int).  A natural is a sequence of  *)
(* limbs in 0..Base-1, least significant first, without leading zero limb; *)
(* zero is the empty sequence.                                             *)
(***************************************************************************)
Base == 2^15

RECURSIVE BNorm(_)
BNorm(a) == IF a = <<>> THEN <<>>
            ELSE IF a[Len(a)] = 0 THEN BNorm(SubSeq(a, 1, Len(a) - 1))
            ELSE a

BZero == <<>>

BOne == <<1>>

RECURSIVE MulCarry(_, _, _, _)
MulCarry(a, k, i, c) ==
    IF i > Len(a) THEN (IF c = 0 THEN <<>> ELSE <<c>>)
    ELSE LET t == a[i] * k + c
         IN  <<t % Base>> \o MulCarry(a, k, i + 1, t \div Base)

\* a * k for 0 <= k < Base
BMulSmall(a, k) == IF k = 0 THEN <<>> ELSE MulCarry(a, k, 1, 0)

RECURSIVE AddCarry(_, _, _, _)
AddCarry(a, b, i, c) ==
    IF i > Len(a) /\ i > Len(b) THEN (IF c = 0 THEN <<>> ELSE <<c>>)
    ELSE LET t == (IF i <= Len(a) THEN a[i] ELSE 0)
                  + (IF i <= Len(b) THEN b[i] ELSE 0) + c
         IN  <<t % Base>> \o AddCarry(a, b, i + 1, t \div Base)

BAdd(a, b) == AddCarry(a, b, 1, 0)

RECURSIVE SubBorrow(_, _, _, _)
SubBorrow(a, b, i, c) ==
    IF i > Len(a) THEN <<>>
    ELSE LET t == a[i] - (IF i <= Len(b) THEN b[i] ELSE 0) - c
         IN  <<(t + Base) % Base>> \o SubBorrow(a, b, i + 1, IF t < 0 THEN 1 ELSE 0)

\* a - b for a >= b
BSub(a, b) == With(SubBorrow(a, b, 1, 0), BNorm)

RECURSIVE CmpFrom(_, _, _)
CmpFrom(a, b, i) ==
    IF i = 0 THEN 0
    ELSE IF a[i] < b[i] THEN -1
    ELSE IF a[i] > b[i] THEN 1
    ELSE CmpFrom(a, b, i - 1)

\* -1, 0, 1 as a < b, a = b, a > b
BCmp(a, b) ==
    LET Cmp(x, y) == IF Len(x) < Len(y) THEN -1
                     ELSE IF Len(x) > Len(y) THEN 1
                     ELSE CmpFrom(x, y, Len(x))
    IN  With2(a, b, Cmp)

RECURSIVE DivFrom(_, _, _, _, _)
DivFrom(a, k, i, r, acc) ==
    IF i = 0 THEN [q |-> BNorm(acc), r |-> r]
    ELSE LET t == r * Base + a[i]
         IN  DivFrom(a, k, i - 1, t % k, <<t \div k>> \o acc)

\* quotient and remainder of a by k, 0 < k <= Base
BDivSmall(a, k) == DivFrom(a, k, Len(a), 0, <<>>)

\* number of binary digits of a limb n
IntBits(n) == Cardinality({b \in 0..14 : 2^b <= n})

\* number of binary digits of a (0 for zero)
BitLen(a) == IF a = <<>> THEN 0 ELSE 15 * (Len(a) - 1) + IntBits(a[Len(a)])

BOdd(a) == a # <<>> /\ a[1] % 2 = 1

\* a * 2^k
BShl(a, k) == IF k = 0 \/ a = <<>> THEN a
              ELSE [i \in 1..(k \div 15) |-> 0] \o BMulSmall(a, 2^(k % 15))

\* a \div 2^k, and whether a nonzero remainder was dropped (or st)
ShrSticky(a, k, st) ==
    LET w    == k \div 15
        low  == SubSeq(a, 1, IF w < Len(a) THEN w ELSE Len(a))
        high == SubSeq(a, w + 1, Len(a))
        d    == BDivSmall(high, 2^(k % 15))
    IN  [q |-> d.q, sticky |-> st \/ d.r # 0 \/ \E i \in 1..Len(low) : low[i] # 0]

RECURSIVE BMulPow10(_, _)
\* a * 10^k, four decimal digits at a time
BMulPow10(a, k) ==
    LET Mul(x) == IF k = 0 \/ x = <<>> THEN x
                  ELSE IF k >= 4 THEN BMulPow10(BMulSmall(x, 10^4), k - 4)
                  ELSE BMulSmall(x, 10^k)
    IN  With(a, Mul)

BPow10(n) == BMulPow10(BOne, n)

\* the largest c in acc .. acc + 7 * 2^b with den * c <= r, in steps of 2^b
QuotStep(r, den, b, acc) ==
    LET Step(c) ==
          c + 2^b * Cardinality({j \in 1..7 : BCmp(BMulSmall(den, c + j * 2^b), r) <= 0})
    IN  With(acc, Step)

\* the largest limb c with den * c <= r, for r < den * Base: three bits at a time
QuotLimb(r, den) ==
    QuotStep(r, den, 0, QuotStep(r, den, 3, QuotStep(r, den, 6,
        QuotStep(r, den, 9, QuotStep(r, den, 12, 0)))))

RECURSIVE LongDiv(_, _, _, _, _)
\* schoolbook division of num by den, most significant limb first
LongDiv(num, den, i, q, r) ==
    IF i = 0 THEN [q |-> BNorm(q), r |-> r]
    ELSE LET Step(r2, q1) ==
               LET Sub(c) == LongDiv(num, den, i - 1, <<c>> \o q1,
                                     BSub(r2, BMulSmall(den, c)))
               IN  IF BCmp(r2, den) < 0
                   THEN LongDiv(num, den, i - 1, <<0>> \o q1, r2)
                   ELSE With(QuotLimb(r2, den), Sub)
         IN  With2(BNorm(<<num[i]>> \o r), q, Step)

\* floor(num / den) and the remainder, den > 0
BDivMod(num, den) ==
    LET Div(n, d) == LongDiv(n, d, Len(n), <<>>, <<>>)
    IN  With2(num, den, Div)

(***************************************************************************)
(* IEEE-754 binary64 (Python float).  A float >= 0 is [m, e] standing for  *)
(* m * 2^e, with m a natural of exactly MantBits bits, or m = 0 and e = 0. *)
(* Every operation rounds to nearest, ties to even, as the hardware does.  *)
(* The values of the model stay far inside the normal range, so there are  *)
(* neither subnormals nor infinities.                                      *)
(***************************************************************************)
MantBits == 53

FZero == [m |-> <<>>, e |-> 0]

\* the float nearest to (num / den) * 2^a, for naturals num and den > 0
RoundToDouble(num, den, a) ==
    LET Rounded(dm, s) ==
          LET k == BitLen(dm.q) - MantBits
              Final(sh, half) ==
                LET up == half.r = 1 /\ (sh.sticky \/ BOdd(half.q))
                    Norm(m1) == IF BitLen(m1) > MantBits
                                THEN [m |-> BDivSmall(m1, 2).q, e |-> k + 1 - s + a]
                                ELSE [m |-> m1, e |-> k - s + a]
                IN  With(IF up THEN BAdd(half.q, BOne) ELSE half.q, Norm)
              Halve(sh) == With2(sh, BDivSmall(sh.q, 2), Final)
          IN  With(ShrSticky(dm.q, k - 1, dm.r # <<>>), Halve)
        Divide(n, d) ==
          LET need == MantBits + 2 + BitLen(d) - BitLen(n)
              s    == IF need > 0 THEN need ELSE 0
          IN  With2(BDivMod(BShl(n, s), d), s, Rounded)
    IN  IF num = <<>> THEN FZero ELSE With2(num, den, Divide)

\* float(n) for a Python int n
IntToFloat(n) == RoundToDouble(n, BOne, 0)

\* x * 10.0**k and x / 10.0**k (10.0**k is exact for k <= 22)
FMulPow10(x, k) ==
    LET Mul(v) == IF v.m = <<>> THEN FZero
                  ELSE RoundToDouble(BMulPow10(v.m, k), BOne, v.e)
    IN  With(x, Mul)

FDivPow10(x, k) ==
    LET Div(v) == IF v.m = <<>> THEN FZero
                  ELSE RoundToDouble(v.m, BPow10(k), v.e)
    IN  With(x, Div)

\* x / y for floats, y > 0
FDiv(x, y) ==
    LET Div(v, w) == IF v.m = <<>> THEN FZero
                     ELSE RoundToDouble(v.m, w.m, v.e - w.e)
    IN  With2(x, y, Div)

\* numpy.rint: the nearest integer, ties to even, as a float
Rint(x) ==
    LET Final(sh, half) ==
          LET up == half.r = 1 /\ (sh.sticky \/ BOdd(half.q))
          IN  IntToFloat(IF up THEN BAdd(half.q, BOne) ELSE half.q)
        Halve(sh) == With2(sh, BDivSmall(sh.q, 2), Final)
        Round(v) == IF v.e >= 0 THEN v
                    ELSE IF 0 - v.e > MantBits + 1 THEN FZero
                    ELSE With(ShrSticky(v.m, (0 - v.e) - 1, FALSE), Halve)
    IN  With(x, Round)

(***************************************************************************)
(* Python text to number conversions.  A string is a sequence of one       *)
(* character strings.                                                      *)
(***************************************************************************)
DigitChars == <<"0", "1", "2", "3", "4", "5", "6", "7", "8", "9">>

IsDigit(c) == \E i \in 1..Len(DigitChars) : DigitChars[i] = c

DigitVal(c) == (CHOOSE i \in 1..Len(DigitChars) : DigitChars[i] = c) - 1

AllDigits(s) == s # <<>> /\ \A i \in 1..Len(s) : IsDigit(s[i])

\* the value of the digits s[i..j], at most four of them
ChunkVal(s, i, j) ==
    LET D(k) == IF k >= i /\ k <= j THEN DigitVal(s[k]) ELSE 0
    IN  IF j - i = 3 THEN 1000 * D(i) + 100 * D(i + 1) + 10 * D(i + 2) + D(i + 3)
        ELSE IF j - i = 2 THEN 100 * D(i) + 10 * D(i + 1) + D(i + 2)
        ELSE IF j - i = 1 THEN 10 * D(i) + D(i + 1)
        ELSE D(i)

RECURSIVE DigitsToNat(_, _, _)
\* the natural written by the digits s[i..], after the value acc of s[1..i-1]
DigitsToNat(s, i, acc) ==
    LET j == IF i + 3 <= Len(s) THEN i + 3 ELSE Len(s)
        Step(n, v) == IF n = <<>> THEN DigitsToNat(s, j + 1, v)
                      ELSE DigitsToNat(s, j + 1, BAdd(BMulSmall(n, 10^(j - i + 1)), v))
    IN  IF i > Len(s) THEN acc
        ELSE With2(acc, BNorm(<<ChunkVal(s, i, j)>>), Step)

\* int(s) of a str s: the sign and magnitude, or ValueError
PyIntStr(s) ==
    LET neg  == s # <<>> /\ s[1] = "-"
        body == IF neg THEN SubSeq(s, 2, Len(s)) ELSE s
    IN  IF AllDigits(body)
        THEN [exc |-> "none", neg |-> neg /\ DigitsToNat(body, 1, <<>>) # <<>>,
              mag |-> DigitsToNat(body, 1, <<>>)]
        ELSE [exc |-> "ValueError", neg |-> FALSE, mag |-> <<>>]

\* a natural below Base * Base as an integer of the model
BToInt(a) == IF a = <<>> THEN 0
             ELSE IF Len(a) = 1 THEN a[1]
             ELSE a[1] + Base * a[2]

(***************************************************************************)
(* JSON values of the asset record that the scripts read.                  *)
(* A value is [t, n, s]: t is "absent" (no such key), "null", "int" (the   *)
(* number n) or "str" (the string s).                                      *)
(***************************************************************************)
JAbsent == [t |-> "absent", n |-> 0, s |-> <<>>]

JNull == [t |-> "null", n |-> 0, s |-> <<>>]

JInt(n) == [t |-> "int", n |-> n, s |-> <<>>]

JStr(s) == [t |-> "str", n |-> 0, s |-> s]

HTTP_OK == 200

\* int(v) of a JSON number or string v
PyInt(v) ==
    IF v.t = "int" THEN [exc |-> "none", val |-> v.n]
    ELSE IF v.t = "str"
         THEN LET r == PyIntStr(v.s)
              IN  IF r.exc = "none"
                  THEN [exc |-> "none",
                        val |-> IF r.neg THEN 0 - BToInt(r.mag) ELSE BToInt(r.mag)]
                  ELSE [exc |-> "ValueError", val |-> 0]
    ELSE [exc |-> "TypeError", val |-> 0]

(***************************************************************************)
(* get_token_decimals: the decimals of a token out of the response to      *)
(* GET /assets/{unit}.  resp is [status, metadata, decimals]: metadata is  *)
(* "absent", "null" or "dict", decimals the 'decimals' entry of the dict.  *)
(* The result is the returned value, or the exception that escapes.        *)
(***************************************************************************)
\* the 'return 0' of the branch of a null metadata replaced by 'return 1'
NoMetadataOne(resp) == [exc |-> "none", val |-> 1]

\* print("No metadata found; defaulting decimals to 0."); return 0
NoMetadataDefault(resp) == [exc |-> "none", val |-> 0]

\* the 'return 0' of the branch of a failed request replaced by 'return 6'
FailedLookupSix(resp) == [exc |-> "none", val |-> 6]

\* print(f"Error fetching token metadata: ..."); return 0
FailedLookupDefault(resp) == [exc |-> "none", val |-> 0]

\* inner_metadata.get('decimals', 0); int(decimals) if decimals is not None else 0
InnerDecimals(inner) ==
    LET entry == IF inner.t = "absent" THEN JInt(0) ELSE inner
    IN  IF entry.t # "null" THEN PyInt(entry) ELSE [exc |-> "none", val |-> 0]

get_token_decimals(resp) ==
    IF resp.status = HTTP_OK
    THEN \* metadata.get('metadata', {}): an absent key gives the empty dict
         LET inner_is_none == resp.metadata = "null"
             inner_decimals == IF resp.metadata = "absent" THEN JAbsent ELSE resp.decimals
         IN  IF ~inner_is_none THEN InnerDecimals(inner_decimals)
             ELSE NoMetadataDefault(resp)
    ELSE FailedLookupDefault(resp)

(***************************************************************************)
(* Quantity normalisation.                                                 *)
(***************************************************************************)
\* Decimal(str(x)): the decimal num * 10^exp, or decimal.InvalidOperation
PyDecimal(s) ==
    IF AllDigits(s) THEN [exc |-> "none", num |-> DigitsToNat(s, 1, <<>>), exp |-> 0]
    ELSE [exc |-> "InvalidOperation", num |-> <<>>, exp |-> 0]

\* dec / (Decimal(10) ** Decimal(decimals)): exact, the quotient has at most
\* 28 significant digits for every quantity below 10^28
DecimalDivFactor(dec, places) == [dec EXCEPT !.exp = @ - places]

\* float(dec), correctly rounded
DecimalToFloat(dec) ==
    LET Float(v) ==
          IF v.num = <<>> THEN FZero
          ELSE IF v.exp >= 0 THEN RoundToDouble(BMulPow10(v.num, v.exp), BOne, 0)
          ELSE RoundToDouble(v.num, BPow10(0 - v.exp), 0)
    IN  With(dec, Float)

\* numpy.round(x, decimals): scale by 10.0**decimals, rint, scale back
NpRound(x, places) ==
    IF places = 0 THEN Rint(x)
    ELSE IF places > 0 THEN FDivPow10(Rint(FMulPow10(x, places)), places)
    ELSE FMulPow10(Rint(FDivPow10(x, 0 - places)), 0 - places)

\* the 'Quantity' cell of the holder table for the raw quantity string x
HolderQuantity(x, places) ==
    NpRound(DecimalToFloat(DecimalDivFactor(PyDecimal(x), places)), places)

\* int(q) / (10 ** decimals) of single_transaction.py: an int by an int is
\* divided exactly and rounded once; 10 ** decimals is a float for decimals < 0
TokenQuantity(q, places) ==
    LET raw == PyIntStr(q).mag
    IN  IF places >= 0 THEN RoundToDouble(raw, BPow10(places), 0)
        ELSE FDiv(IntToFloat(raw), RoundToDouble(BOne, BPow10(0 - places), 0))

(***************************************************************************)
(* The environment: what the Blockfrost API may answer.                    *)
(***************************************************************************)
MaxHolders == 3

MaxPageLen == 2

\* the status codes of the model: success and one failure
StatusCodes == {HTTP_OK, 404}

\* the 'decimals' entries an asset record may carry
DecimalsFields ==
    {JAbsent, JNull, JInt(0), JInt(6), JInt(-1), JStr(<<"6">>), JStr(<<"s", "i", "x">>)}

\* the answers to GET /assets/{unit}
AssetResponses ==
    {[status |-> 404, metadata |-> "absent", decimals |-> JAbsent],
     [status |-> HTTP_OK, metadata |-> "absent", decimals |-> JAbsent],
     [status |-> HTTP_OK, metadata |-> "null", decimals |-> JAbsent]}
    \cup {[status |-> HTTP_OK, metadata |-> "dict", decimals |-> d] : d \in DecimalsFields}

\* holder a of the listing: its address and its quantity string; every third
\* holder owns 10 units, the others 5, so that the listing has ties
Holder(a) == [address |-> a,
              quantity |-> IF a % 3 = 0 THEN <<"1", "0">> ELSE <<"5">>]

\* the sequences of at most n elements of S, without repetition
InjSeqs(S, n) ==
    {q \in UNION {[1..k -> S] : k \in 0..n} :
        \A i, j \in 1..Len(q) : i # j => q[i] # q[j]}

\* the listings of holders the upstream may hold for the token
HolderLedgers == InjSeqs({Holder(a) : a \in 1..MaxHolders}, MaxHolders)

\* the answers to one page request when rest is still to be served: a failure,
\* an empty page, or the next 1..MaxPageLen elements
PageResponses(rest) ==
    {[status |-> 404, body |-> <<>>], [status |-> HTTP_OK, body |-> <<>>]}
    \cup {[status |-> HTTP_OK, body |-> SubSeq(rest, 1, n)] :
            n \in 1..(IF Len(rest) < MaxPageLen THEN Len(rest) ELSE MaxPageLen)}

(***************************************************************************)
(* token_holders.py                                                        *)
(***************************************************************************)
VARIABLES
    prog,        \* the script that runs
    pc,          \* its position
    trace,       \* the requests issued and the delays slept, in order
    calls,       \* the calls of get_token_decimals: response and outcome
    metadata,    \* the module level variable 'metadata' of token_holders.py
    ledger,      \* upstream: the elements the listing has not served yet
    page,        \* the page index of the pagination loop
    served,      \* the responses to the page requests, in order
    all_holders, \* the elements accumulated by the pagination loop
    decimals,    \* the decimals passed to get_token_holders
    result,      \* what the script returned, or the exception that escaped
    norm,        \* the quantity normaliser's input and output
    keys,        \* stake_addresses_v2.py: the stake keys read from stake.csv
    key_idx,     \* the index of the stake key that main is at
    pending,     \* the addresses of the current page still to be looked up
    all_addresses_list, \* the (address, ada_amount) pairs accumulated
    output_data, \* the records main has appended
    tx,          \* single_transaction.py: the transaction the upstream holds
    sender,      \* the locals sender_wallet and sender_stake_key
    amounts,     \* the token amounts of the current output still to be processed
    inputs_details,   \* the list inputs_details
    outputs_details,  \* the list outputs_details
    tokens_moved,     \* the list tokens_moved
    transaction_info, \* what fetch_transaction_details returned
    saved,       \* whether save_transaction_to_excel has written the workbook
    utxos_data,  \* the visualization scripts: the globals utxos_data,
    tx_data,     \*   tx_data
    block_data,  \*   and block_data (transaction_vizualization-v2.py only),
    inputs,      \*   the (address, ada_amount) pairs of process_utxo_data,
    outputs,
    tx_details,  \*   the string of format_transaction_details
    elements,    \*   the list of create_cytoscape_elements
    temp_md_file_path, \* ipfd_to_word.py: the temporary markdown file
    converted    \*   what convert_markdown_to_file returned

hvars == <<all_holders, decimals, calls, metadata>>

svars == <<keys, key_idx, pending, all_addresses_list, output_data>>

tvars == <<tx, sender, amounts, inputs_details, outputs_details, tokens_moved,
           transaction_info, saved>>

zvars == <<utxos_data, tx_data, block_data, inputs, outputs, tx_details, elements>>

cvars == <<temp_md_file_path, converted>>

vars == <<prog, pc, trace, ledger, page, served, result, norm, hvars, svars, tvars,
          zvars, cvars>>

Event(ev, arg) == [ev |-> ev, arg |-> arg]

\* a request together with the status code of its response
TxEvent(ev, arg, status) == [ev |-> ev, arg |-> arg, status |-> status]

NoResult == [exc |-> "none", rows |-> <<>>]

Raised(exc) == [exc |-> exc, rows |-> <<>>]

Returned(rows) == [exc |-> "none", rows |-> rows]

\* delay=1 of get_token_holders
Delay == 1

\* page += 1 replaced by a step of two
HoldersSkipPage(p) == p + 2

\* page += 1
HoldersNextPage(p) == p + 1

\* all_holders.extend(holders) replaced by an insertion in front
HoldersExtendInFront(all, holders) == holders \o all

\* all_holders.extend(holders)
HoldersExtend(all, holders) == all \o holders

\* the loop goes on after a page iff the status is 200 and the list is not empty
HoldersContinues(resp) == resp.status = HTTP_OK /\ resp.body # <<>>

\* the entry of 'served' for the request of page p answered by resp
Served(p, resp) == [page |-> p, status |-> resp.status, body |-> resp.body]

\* __main__: decimals = get_token_decimals(token_unit)
MainGetDecimals ==
    /\ prog = "holders" /\ pc = "main"
    /\ \E resp \in AssetResponses :
         LET out == get_token_decimals(resp)
         IN  /\ trace' = Append(trace, Event("asset", 0))
             /\ calls' = Append(calls, [resp |-> resp, out |-> out])
             /\ metadata' = IF resp.status = HTTP_OK
                            THEN [set |-> TRUE, metadata |-> resp.metadata,
                                  decimals |-> resp.decimals]
                            ELSE metadata
             /\ IF out.exc = "none"
                THEN /\ decimals' = out.val
                     /\ pc' = "h_request"
                     /\ result' = result
                ELSE /\ decimals' = decimals
                     /\ pc' = "raised"
                     /\ result' = Raised(out.exc)
    /\ UNCHANGED <<cvars, zvars, tvars, prog, ledger, page, served, all_holders, norm, svars>>

\* get_token_holders: one iteration of the while loop up to the sleep
HoldersRequest ==
    /\ prog = "holders" /\ pc = "h_request"
    /\ \E resp \in PageResponses(ledger) :
         /\ trace' = Append(trace, Event("page", page))
         /\ served' = Append(served, Served(page, resp))
         /\ ledger' = SubSeq(ledger, Len(resp.body) + 1, Len(ledger))
         /\ IF HoldersContinues(resp)
            THEN /\ all_holders' = HoldersExtend(all_holders, resp.body)
                 /\ page' = HoldersNextPage(page)
                 /\ pc' = "h_sleep"
            ELSE /\ UNCHANGED <<all_holders, page>>
                 /\ pc' = "h_table"
    /\ UNCHANGED <<cvars, zvars, tvars, prog, calls, metadata, decimals, result, norm, svars>>

\* time.sleep(delay) followed by a metadata request inside the loop
HoldersSleepAndResolve ==
    /\ prog = "holders" /\ pc = "h_sleep"
    /\ trace' = trace \o <<Event("sleep", Delay), Event("asset", 0)>>
    /\ pc' = "h_request"
    /\ UNCHANGED <<cvars, zvars, tvars, prog, ledger, page, served, result, norm, hvars, svars>>

\* time.sleep(delay)
HoldersSleep ==
    /\ prog = "holders" /\ pc = "h_sleep"
    /\ trace' = Append(trace, Event("sleep", Delay))
    /\ pc' = "h_request"
    /\ UNCHANGED <<cvars, zvars, tvars, prog, ledger, page, served, result, norm, hvars, svars>>

\* pd.DataFrame(all_holders) has a 'quantity' column iff the list has an element
HasQuantityColumn(all) == all # <<>>

\* x < y for two decimals of the same exponent
DecLess(x, y) == BCmp(x.num, y.num) < 0

\* df.sort_values(by=..., ascending=False): the default kind is 'quicksort',
\* which pandas documents as not stable: the row orders it may produce are
\* the descending ones, equal keys in any order
sort_values(by) ==
    {p \in InjSeqs(DOMAIN by, Len(by)) :
        /\ Len(p) = Len(by)
        /\ \A i, j \in 1..Len(p) : i < j => ~DecLess(by[p[i]], by[p[j]])}

\* the decimals that get_token_decimals can return for the responses of the model
ReturnedDecimals ==
    {get_token_decimals(r).val : r \in {q \in AssetResponses :
                                          get_token_decimals(q).exc = "none"}}

\* the 'Quantity' cells of the model's holders, computed once
QuantityCells ==
    {[x |-> x, d |-> d, cell |-> HolderQuantity(x, d)] :
        x \in {Holder(a).quantity : a \in 1..MaxHolders}, d \in ReturnedDecimals}

QuantityCell(x, d) == (CHOOSE c \in QuantityCells : c.x = x /\ c.d = d).cell

\* get_token_holders after the loop: the DataFrame, the adjusted quantities,
\* the sort, the conversion to float and the rounding
HoldersTable ==
    /\ prog = "holders" /\ pc = "h_table"
    /\ IF ~HasQuantityColumn(all_holders)
       THEN /\ result' = Raised("KeyError")
            /\ pc' = "raised"
       ELSE LET adjusted == [i \in 1..Len(all_holders) |->
                               DecimalDivFactor(PyDecimal(all_holders[i].quantity),
                                                decimals)]
            IN  \E by \in {adjusted} : \E p \in sort_values(by) :
                  /\ result' = Returned([i \in 1..Len(p) |->
                        [Address  |-> all_holders[p[i]].address,
                         Quantity |-> QuantityCell(all_holders[p[i]].quantity,
                                                   decimals)]])
                  /\ pc' = "done"
    /\ UNCHANGED <<cvars, zvars, tvars, prog, trace, ledger, page, served, norm, hvars, svars>>

(***************************************************************************)
(* stake_addresses_v2.py                                                   *)
(***************************************************************************)
MaxKeys == 2

MaxAddrs == 2

\* the address listings the upstream may hold for one stake key: an address
\* belongs to one stake key, so those in done (listed under an earlier key)
\* are not listed again
AddressLedgers(done) == InjSeqs((1..MaxAddrs) \ done, MaxAddrs)

\* the answers to GET /addresses/{address}: a failure, a body whose first
\* amount is 2.5 ADA in Lovelace, a body whose quantity is not a number
BalanceResponses ==
    {[status |-> 404, quantity |-> <<>>],
     [status |-> HTTP_OK, quantity |-> <<"2", "5", "0", "0", "0", "0", "0">>],
     [status |-> HTTP_OK, quantity |-> <<"n", "a", "n">>]}

\* the Lovelace of one ADA: the power of ten of 1_000_000
AdaDecimals == 6

\* the else branch of fetch_ada_amount replaced by response.raise_for_status()
BalanceFailedRaises(resp) == [exc |-> "HTTPError", val |-> FZero]

\* print(f"Failed to fetch ADA amount for ..."); return 0
BalanceFailed(resp) == [exc |-> "none", val |-> FZero]

\* fetch_ada_amount: the ADA of an address out of the response to the lookup
fetch_ada_amount(resp) ==
    IF resp.status = HTTP_OK
    THEN LET Ada(q) ==
               IF q.exc = "none"
               THEN [exc |-> "none", val |-> RoundToDouble(q.mag, BPow10(AdaDecimals), 0)]
               ELSE [exc |-> q.exc, val |-> FZero]
         IN  With(PyIntStr(resp.quantity), Ada)
    ELSE BalanceFailed(resp)

\* the amounts of the model's balance responses, computed once
AdaAmounts == {[resp |-> r, out |-> fetch_ada_amount(r)] : r \in BalanceResponses}

AdaAmount(resp) == (CHOOSE c \in AdaAmounts : c.resp = resp).out

\* page += 1
StakeNextPage(p) == p + 1

\* all_addresses_list.append(...) replaced by nothing
StakeAppendNothing(all, address, ada_amount) == all

\* all_addresses_list.append(...) replaced by an insertion in front
StakeAppendInFront(all, address, ada_amount) ==
    <<[address |-> address, ada_amount |-> ada_amount]>> \o all

\* all_addresses_list.append((address, ada_amount))
StakeAppend(all, address, ada_amount) ==
    Append(all, [address |-> address, ada_amount |-> ada_amount])

\* the loop goes on after a page iff the status is 200 and the list is not empty
StakeContinues(resp) == resp.status = HTTP_OK /\ resp.body # <<>>

\* main: the next stake key of the csv, fetch_addresses_for_stake is entered
StakeNextKey ==
    /\ prog = "stake" /\ pc = "s_main" /\ key_idx <= Len(keys)
    /\ \E l \in AddressLedgers({output_data[i].addresses : i \in 1..Len(output_data)}) :
         ledger' = l
    /\ page' = 1 /\ all_addresses_list' = <<>> /\ served' = <<>> /\ pending' = <<>>
    /\ pc' = "s_request"
    /\ UNCHANGED <<cvars, zvars, tvars, prog, trace, result, norm, hvars, keys, key_idx, output_data>>

\* fetch_addresses_for_stake: the request of one page and the test of its answer
StakeRequest ==
    /\ prog = "stake" /\ pc = "s_request"
    /\ \E resp \in PageResponses(ledger) :
         /\ trace' = Append(trace, TxEvent("page", page, resp.status))
         /\ served' = Append(served, Served(page, resp))
         /\ ledger' = SubSeq(ledger, Len(resp.body) + 1, Len(ledger))
         /\ IF StakeContinues(resp)
            THEN /\ pending' = resp.body
                 /\ pc' = "s_balance"
            ELSE /\ pending' = <<>>
                 /\ pc' = "s_return"
    /\ UNCHANGED <<cvars, zvars, tvars, prog, page, result, norm, hvars, keys, key_idx,
                   all_addresses_list, output_data>>

\* one turn of the for loop over the page: fetch_ada_amount and the append;
\* after the last address of the page, page += 1
StakeBalance ==
    /\ prog = "stake" /\ pc = "s_balance"
    /\ \E resp \in BalanceResponses :
         LET address == Head(pending)
             out     == AdaAmount(resp)
         IN  /\ trace' = Append(trace, TxEvent("balance", address, resp.status))
             /\ IF out.exc = "none"
                THEN /\ all_addresses_list' =
                          StakeAppend(all_addresses_list, address, out.val)
                     /\ pending' = Tail(pending)
                     /\ IF Tail(pending) = <<>>
                        THEN page' = StakeNextPage(page) /\ pc' = "s_request"
                        ELSE page' = page /\ pc' = "s_balance"
                     /\ result' = result
                ELSE /\ result' = Raised(out.exc)
                     /\ pc' = "raised"
                     /\ UNCHANGED <<all_addresses_list, pending, page>>
    /\ UNCHANGED <<cvars, zvars, tvars, prog, ledger, served, norm, hvars, keys, key_idx, output_data>>

\* main: the records of the key that fetch_addresses_for_stake returned
StakeReturn ==
    /\ prog = "stake" /\ pc = "s_return"
    /\ output_data' = output_data \o
          [i \in 1..Len(all_addresses_list) |->
              [stake_pool_address |-> keys[key_idx],
               addresses  |-> all_addresses_list[i].address,
               ada_amount |-> all_addresses_list[i].ada_amount]]
    /\ key_idx' = key_idx + 1
    /\ pc' = "s_main"
    /\ UNCHANGED <<cvars, zvars, tvars, prog, trace, ledger, page, served, result, norm, hvars, keys,
                   pending, all_addresses_list>>

\* main: output_df.to_excel after the last key
StakeSave ==
    /\ prog = "stake" /\ pc = "s_main" /\ key_idx > Len(keys)
    /\ result' = Returned(output_data)
    /\ pc' = "done"
    /\ UNCHANGED <<cvars, zvars, tvars, prog, trace, ledger, page, served, norm, hvars, svars>>

(***************************************************************************)
(* single_transaction.py                                                   *)
(***************************************************************************)
MaxUtxos == 3

MaxTokens == 2

RECURSIVE SeqSum(_)
SeqSum(q) == IF q = <<>> THEN 0 ELSE Head(q) + SeqSum(Tail(q))

\* the raw quantity strings of the tokens of the model: 5 and 1500000
TokenRaw(k, j) == IF (k + j) % 2 = 0 THEN <<"5">>
                  ELSE <<"1", "5", "0", "0", "0", "0", "0">>

\* tx_data['fees'], the fee string of the transaction object: 2500000 Lovelace when the
\* transaction has an odd number of inputs, 170000 otherwise
FeesField(m) == IF m % 2 = 1 THEN <<"2", "5", "0", "0", "0", "0", "0">>
             ELSE <<"1", "7", "0", "0", "0", "0">>

\* the transactions the upstream may hold: m inputs, and outputs of which the
\* k-th carries counts[k] tokens after its ADA amount; MaxUtxos inputs and
\* outputs and MaxTokens tokens in all
TxShapes ==
    {[inputs  |-> [i \in 1..sh.m |-> i],
      outputs |-> [k \in 1..Len(sh.counts) |->
                     [address |-> MaxUtxos + k,
                      amount  |-> [j \in 1..sh.counts[k] |->
                                     [unit |-> <<k, j>>, quantity |-> TokenRaw(k, j)]]]],
      fees    |-> FeesField(sh.m)] :
        sh \in {x \in [m : 0..MaxUtxos,
                       counts : UNION {[1..n -> 0..MaxTokens] : n \in 0..MaxUtxos}] :
                   /\ x.m + Len(x.counts) <= MaxUtxos
                   /\ SeqSum(x.counts) <= MaxTokens}}

\* the two tabular assemblers: code/transaction/single_transaction.py and
\* code/transaction.py, which are the same text but for the loop over the
\* tokens of an output
TxProgs == {"tx", "tx_simple"}

\* the answers to GET /assets/{unit} in the transaction script: a failure, and
\* a metadata dict without decimals, with decimals 6, with decimals 'six'
TxAssetResponses ==
    {r \in AssetResponses :
        \/ r.status # HTTP_OK
        \/ r.metadata = "dict" /\ r.decimals \in {JAbsent, JInt(6), JStr(<<"s", "i", "x">>)}}

\* the answers to GET /addresses/{address} that fetch_stake_key reads: a
\* failure, a body without 'stake_address', with a null one, with a stake key
StakeKeyResponses ==
    {[status |-> 404, stake_address |-> "absent"],
     [status |-> HTTP_OK, stake_address |-> "absent"],
     [status |-> HTTP_OK, stake_address |-> "null"],
     [status |-> HTTP_OK, stake_address |-> "str"]}

\* the sentinel replaced by the empty string
StakeKeySentinelEmpty == ""

\* the sentinel 'N/A'
StakeKeySentinel == "N/A"

\* fetch_stake_key: address_data.get('stake_address', 'N/A'), 'N/A' on a
\* failure; .get returns the value of a key that is there, None for a null
fetch_stake_key(resp) ==
    IF resp.status = HTTP_OK
    THEN CASE resp.stake_address = "absent" -> StakeKeySentinel
           [] resp.stake_address = "null"   -> "None"
           [] OTHER                         -> "stake1u"
    ELSE StakeKeySentinel

\* the request of fetch_stake_key and what its response carried
AddressEvent(address, resp) ==
    [ev |-> "address", arg |-> address, status |-> resp.status,
     stake_address |-> resp.stake_address]

\* the quantity strings of the ADA amount of a UTXO: 2500000 Lovelace, or
\* text that is not a number
UtxoQuantities == {<<"2", "5", "0", "0", "0", "0", "0">>, <<"n", "a", "n">>}

\* int(quantity) / 1_000_000
LovelaceToAda(q) ==
    LET Ada(n) ==
          IF n.exc = "none"
          THEN [exc |-> "none", val |-> RoundToDouble(n.mag, BPow10(AdaDecimals), 0)]
          ELSE [exc |-> n.exc, val |-> FZero]
    IN  With(PyIntStr(q), Ada)

\* the ADA amounts of the quantity and fee strings of the model, computed once
AdaCells ==
    {[q |-> q, out |-> LovelaceToAda(q)] :
        q \in UtxoQuantities \cup {FeesField(0), FeesField(1), <<"0">>, <<"x">>}}

AdaCell(q) == (CHOOSE c \in AdaCells : c.q = q).out

\* the adjusted quantities of the model's tokens, computed once
TokenCells ==
    {[x |-> x, d |-> d, cell |-> TokenQuantity(x, d)] :
        x \in {TokenRaw(0, 0), TokenRaw(0, 1)}, d \in ReturnedDecimals}

TokenCell(x, d) == (CHOOSE c \in TokenCells : c.x = x /\ c.d = d).cell

\* int(amount['quantity']) of the model's tokens, computed once
TokenInts == {[x |-> x, out |-> PyIntStr(x)] : x \in {TokenRaw(0, 0), TokenRaw(0, 1)}}

TokenInt(x) == (CHOOSE c \in TokenInts : c.x = x).out

None == [none |-> TRUE]

Unbound == [bound |-> FALSE, wallet |-> 0, stake_key |-> "N/A"]

\* a top-level request whose failure is reported but does not return
TopLevelGoesOn(ev, from, to) ==
    /\ prog \in TxProgs /\ pc = from
    /\ \E status \in StatusCodes :
         /\ trace' = Append(trace, TxEvent(ev, 0, status))
         /\ pc' = to /\ transaction_info' = transaction_info
    /\ UNCHANGED <<cvars, prog, ledger, page, served, result, norm, hvars, svars, zvars, tx,
                   sender, amounts, inputs_details, outputs_details, tokens_moved,
                   saved>>

\* a top-level request and its test: the next step on success, None otherwise
TopLevel(ev, from, to) ==
    /\ prog \in TxProgs /\ pc = from
    /\ \E status \in StatusCodes :
         /\ trace' = Append(trace, TxEvent(ev, 0, status))
         /\ IF status = HTTP_OK
            THEN pc' = to /\ transaction_info' = transaction_info
            ELSE pc' = "t_main" /\ transaction_info' = None
    /\ UNCHANGED <<cvars, prog, ledger, page, served, result, norm, hvars, svars, zvars, tx,
                   sender, amounts, inputs_details, outputs_details, tokens_moved,
                   saved>>

\* GET /txs/{tx_id}
TxRequest == TopLevel("tx", "t_tx", "t_block")

\* the answers to GET /blocks/{block}: a failure, a block with its 'time', a
\* block object without 'time'
BlockResponses ==
    {[status |-> 404, time |-> FALSE],
     [status |-> HTTP_OK, time |-> TRUE],
     [status |-> HTTP_OK, time |-> FALSE]}

\* GET /blocks/{block} and tx_date = ...block_data['time']...: None on a
\* failure, KeyError when the block has no 'time'
TxBlock ==
    /\ prog \in TxProgs /\ pc = "t_block"
    /\ \E resp \in BlockResponses :
         /\ trace' = Append(trace, [ev |-> "block", arg |-> 0, status |-> resp.status,
                                    time |-> resp.time])
         /\ IF resp.status # HTTP_OK
            THEN pc' = "t_main" /\ transaction_info' = None /\ result' = result
            ELSE IF resp.time
            THEN pc' = "t_utxo" /\ UNCHANGED <<transaction_info, result>>
            ELSE pc' = "raised" /\ result' = Raised("KeyError")
                 /\ transaction_info' = transaction_info
    /\ UNCHANGED <<cvars, prog, ledger, page, served, norm, hvars, svars, zvars, tx,
                   sender, amounts, inputs_details, outputs_details, tokens_moved,
                   saved>>

\* GET /txs/{tx_id}/utxos
TxUtxos == TopLevel("utxos", "t_utxo", "t_assemble")

\* one turn of the loop over utxo_data['inputs']: the stake key lookup, then
\* int(quantity) / 1_000_000, which raises ValueError on an unparsable string
TxInput ==
    /\ prog \in TxProgs /\ pc = "t_assemble" /\ Len(inputs_details) < Len(tx.inputs)
    /\ \E resp \in StakeKeyResponses, q \in UtxoQuantities :
         \E ada_amount \in {AdaCell(q)} :
         LET sender_wallet    == tx.inputs[Len(inputs_details) + 1]
             sender_stake_key == fetch_stake_key(resp)
         IN  /\ trace' = Append(trace, AddressEvent(sender_wallet, resp))
             /\ sender' = [bound |-> TRUE, wallet |-> sender_wallet,
                           stake_key |-> sender_stake_key]
             /\ IF ada_amount.exc = "none"
                THEN /\ inputs_details' = Append(inputs_details,
                           [Address |-> sender_wallet, Stake_Key |-> sender_stake_key,
                            ADA_Amount |-> ada_amount.val])
                     /\ UNCHANGED <<pc, result>>
                ELSE /\ pc' = "raised" /\ result' = Raised(ada_amount.exc)
                     /\ inputs_details' = inputs_details
    /\ UNCHANGED <<cvars, prog, ledger, page, served, norm, hvars, svars, zvars, tx,
                   amounts, outputs_details, tokens_moved, transaction_info, saved>>

\* one turn of the loop over utxo_data['outputs'], up to its loop over the tokens
TxOutput ==
    /\ prog \in TxProgs /\ pc = "t_assemble" /\ Len(inputs_details) = Len(tx.inputs)
    /\ amounts = <<>> /\ Len(outputs_details) < Len(tx.outputs)
    /\ \E resp \in StakeKeyResponses, q \in UtxoQuantities :
         \E receiver_ada_amount \in {AdaCell(q)} :
         LET output == tx.outputs[Len(outputs_details) + 1]
         IN  /\ trace' = Append(trace, AddressEvent(output.address, resp))
             /\ IF receiver_ada_amount.exc = "none"
                THEN /\ outputs_details' = Append(outputs_details,
                           [Address |-> output.address,
                            Stake_Key |-> fetch_stake_key(resp),
                            ADA_Amount |-> receiver_ada_amount.val])
                     /\ amounts' = output.amount
                     /\ UNCHANGED <<pc, result>>
                ELSE /\ pc' = "raised" /\ result' = Raised(receiver_ada_amount.exc)
                     /\ UNCHANGED <<outputs_details, amounts>>
    /\ UNCHANGED <<cvars, prog, ledger, page, served, norm, hvars, svars, zvars, tx,
                   sender, inputs_details, tokens_moved, transaction_info, saved>>

\* the receiver taken from the first output instead of the current one
ReceiverFirst(details) == details[1]

\* receiver_wallet and receiver_stake_key: those of the output of the current
\* turn, the last one appended to outputs_details
Receiver(details) == details[Len(details)]

\* tokens_moved.append({...}) for the token at the head of amounts, decimals
\* being what fetch_token_metadata returned; sender_wallet is unbound when the
\* loop over the inputs has had no turn
MoveToken(places) ==
    LET amount   == Head(amounts)
        receiver == Receiver(outputs_details)
    IN  IF sender.bound
        THEN /\ tokens_moved' = Append(tokens_moved,
                   [Input_Address    |-> sender.wallet,
                    Input_Stake_Key  |-> sender.stake_key,
                    Output_Address   |-> receiver.Address,
                    Output_Stake_Key |-> receiver.Stake_Key,
                    Token            |-> amount.unit,
                    Quantity         |-> TokenCell(amount.quantity, places)])
             /\ amounts' = Tail(amounts)
             /\ pc' = "t_assemble"
             /\ result' = result
        ELSE /\ result' = Raised("UnboundLocalError")
             /\ pc' = "raised"
             /\ UNCHANGED <<tokens_moved, amounts>>

\* fetch_token_metadata: its own request of the asset; on a failure it
\* returns ('N/A', 0, asset_id) and the token is appended with decimals 0
TxTokenMetadata ==
    /\ prog = "tx" /\ pc = "t_assemble" /\ amounts # <<>>
    /\ \E resp \in TxAssetResponses :
         /\ trace' = Append(trace, TxEvent("asset", Head(amounts).unit, resp.status))
         /\ IF resp.status = HTTP_OK
            THEN /\ pc' = "t_decimals"
                 /\ UNCHANGED <<tokens_moved, amounts, result>>
            ELSE MoveToken(FailedLookupDefault(resp).val)
    /\ calls' = calls
    /\ UNCHANGED <<cvars, prog, ledger, page, served, norm, all_holders, decimals, metadata,
                   svars, zvars, tx, sender, inputs_details, outputs_details,
                   transaction_info, saved>>

\* the nested get_token_decimals(asset_id): a second request of the asset,
\* then the return of fetch_token_metadata and the append of the token
TxTokenDecimals ==
    /\ prog = "tx" /\ pc = "t_decimals"
    /\ \E resp \in TxAssetResponses :
         LET out == get_token_decimals(resp)
         IN  /\ trace' = Append(trace, TxEvent("asset", Head(amounts).unit, resp.status))
             /\ calls' = Append(calls, [resp |-> resp, out |-> out])
             /\ IF out.exc = "none"
                THEN MoveToken(out.val)
                ELSE /\ result' = Raised(out.exc)
                     /\ pc' = "raised"
                     /\ UNCHANGED <<tokens_moved, amounts>>
    /\ UNCHANGED <<cvars, prog, ledger, page, served, norm, all_holders, decimals, metadata,
                   svars, zvars, tx, sender, inputs_details, outputs_details,
                   transaction_info, saved>>

\* the answers to GET /assets/{unit} that transaction.py reads: a failure, a
\* body without 'fingerprint', a body with one
FingerprintResponses ==
    {[status |-> 404, fingerprint |-> FALSE],
     [status |-> HTTP_OK, fingerprint |-> FALSE],
     [status |-> HTTP_OK, fingerprint |-> TRUE]}

\* token_response.json().get('fingerprint', 'N/A') if status 200 else 'N/A'
token_name(resp) ==
    IF resp.status = HTTP_OK /\ resp.fingerprint THEN "asset1" ELSE "N/A"

\* transaction.py: one turn of the loop over output['amount'][1:]: the asset
\* request, then the dict, whose 'Input Address' is evaluated first
\* (UnboundLocalError without inputs) and whose 'Quantity' is
\* int(amount['quantity']) (ValueError on an unparsable string)
TxSimpleToken ==
    /\ prog = "tx_simple" /\ pc = "t_assemble" /\ amounts # <<>>
    /\ \E resp \in FingerprintResponses :
         \E quantity \in {TokenInt(Head(amounts).quantity)} :
         LET amount   == Head(amounts)
             receiver == Receiver(outputs_details)
         IN  /\ trace' = Append(trace, TxEvent("asset", amount.unit, resp.status))
             /\ IF ~sender.bound
                THEN /\ result' = Raised("UnboundLocalError")
                     /\ pc' = "raised"
                     /\ UNCHANGED <<tokens_moved, amounts>>
                ELSE IF quantity.exc # "none"
                THEN /\ result' = Raised(quantity.exc)
                     /\ pc' = "raised"
                     /\ UNCHANGED <<tokens_moved, amounts>>
                ELSE /\ tokens_moved' = Append(tokens_moved,
                           [Input_Address    |-> sender.wallet,
                            Input_Stake_Key  |-> sender.stake_key,
                            Output_Address   |-> receiver.Address,
                            Output_Stake_Key |-> receiver.Stake_Key,
                            Token            |-> amount.unit,
                            Token_Name       |-> token_name(resp),
                            Quantity         |-> quantity.mag])
                     /\ amounts' = Tail(amounts)
                     /\ UNCHANGED <<pc, result>>
    /\ UNCHANGED <<cvars, prog, ledger, page, served, norm, hvars, svars, zvars, tx, sender,
                   inputs_details, outputs_details, transaction_info, saved>>

\* after the loops: int(tx_data['fees']) / 1_000_000 and the returned
\* transaction_info, whose date is the formatted time of the block
TxFee ==
    /\ prog \in TxProgs /\ pc = "t_assemble" /\ amounts = <<>>
    /\ Len(inputs_details) = Len(tx.inputs) /\ Len(outputs_details) = Len(tx.outputs)
    /\ transaction_info' = [none |-> FALSE,
                            date |-> "yyyy.mm.dd - HH.MM.SS",
                            inputs_details  |-> inputs_details,
                            outputs_details |-> outputs_details,
                            tokens_moved    |-> tokens_moved,
                            transaction_fee |-> AdaCell(tx.fees).val]
    /\ pc' = "t_main"
    /\ UNCHANGED <<cvars, prog, trace, ledger, page, served, result, norm, hvars, svars, zvars,
                   tx, sender, amounts, inputs_details, outputs_details, tokens_moved,
                   saved>>

\* the test of __main__ replaced by an unconditional call whose own test is gone
ShouldSaveAlways(info) == TRUE

\* 'if result:' of __main__ and 'if not transaction_info: return' of
\* save_transaction_to_excel: the workbook is written for a dict, not for None
ShouldSave(info) == ~info.none

\* __main__: if result: save_transaction_to_excel(result)
TxMain ==
    /\ prog \in TxProgs /\ pc = "t_main"
    /\ saved' = ShouldSave(transaction_info)
    /\ pc' = "done"
    /\ UNCHANGED <<cvars, prog, trace, ledger, page, served, result, norm, hvars, svars, zvars,
                   tx, sender, amounts, inputs_details, outputs_details, tokens_moved,
                   transaction_info>>

(***************************************************************************)
(* transaction_vizualization.py and transaction_vizualization-v2.py: the   *)
(* module level script up to the details string.  Of the details string    *)
(* the model keeps the date and the fee; epoch, slot and size are copied   *)
(* from the responses and left out.                                        *)
(***************************************************************************)
MaxVizUtxos == 2

VizProgs == {"viz", "viz2"}

\* one element of utxos_data['inputs'] or ['outputs']: its address and its
\* 'amount' list, which is empty or starts with the ADA quantity
VizUtxo(a, amount) == [address |-> a, amount |-> amount]

\* the 'amount' lists of the model
VizAmounts == {<<>>} \cup {<<q>> : q \in UtxoQuantities}

\* the bodies of GET /txs/{tx_id}/utxos: m inputs and n outputs
VizUtxoBodies ==
    UNION {{[inputs  |-> [i \in 1..m |-> VizUtxo(i, ins[i])],
             outputs |-> [k \in 1..n |-> VizUtxo(MaxVizUtxos + k, outs[k])]] :
               ins \in [1..m -> VizAmounts], outs \in [1..n -> VizAmounts]} :
           m \in 0..MaxVizUtxos, n \in 0..MaxVizUtxos}

VizUtxosDatas == {u \in VizUtxoBodies : Len(u.inputs) + Len(u.outputs) <= MaxVizUtxos}

\* a Unix time of the model
Timestamp == 1700000000

\* the bodies of GET /txs/{tx_id}: 'block' is a hash (a str), absent or null;
\* 'fees' is the fee string of Blockfrost or absent; 'fee' is absent, a fee
\* string or text; 'block_time' is absent or a Unix time
VizTxDatas ==
    [block      : {"str", "absent", "null"},
     fees       : {JAbsent, JStr(FeesField(1))},
     fee        : {JAbsent, JStr(FeesField(0)), JStr(<<"x">>)},
     block_time : {JAbsent, JInt(Timestamp)}]

\* the answers to GET /blocks/{block}
VizBlockResponses ==
    {[status |-> 404, block_time |-> JAbsent],
     [status |-> HTTP_OK, block_time |-> JAbsent],
     [status |-> HTTP_OK, block_time |-> JInt(Timestamp)]}

\* block_data = {}
EmptyBlock == [block_time |-> JAbsent]

NoDetails == [Date |-> "", Fee |-> [na |-> TRUE, val |-> FZero]]

\* fetch_transaction_data up to its test of the two status codes: both
\* requests are issued, the UTXOs first; (None, None) unless both succeed.
\* In v2 a 'block' that is no str gives block_data = {} at once
VizFetch ==
    /\ prog \in VizProgs /\ pc = "z_fetch"
    /\ \E ustatus \in StatusCodes, tstatus \in StatusCodes :
         /\ trace' = trace \o <<TxEvent("utxos", 0, ustatus), TxEvent("tx", 0, tstatus)>>
         /\ IF ustatus = HTTP_OK /\ tstatus = HTTP_OK
            THEN \E u \in VizUtxosDatas, d \in VizTxDatas :
                   /\ utxos_data' = u
                   /\ tx_data' = d
                   /\ pc' = IF prog = "viz2" /\ d.block = "str"
                            THEN "z_block" ELSE "z_process"
            ELSE /\ utxos_data' = None /\ tx_data' = None
                 /\ pc' = "done"
    /\ block_data' = EmptyBlock
    /\ UNCHANGED <<cvars, prog, ledger, page, served, result, norm, hvars, svars, tvars,
                   inputs, outputs, tx_details, elements>>

\* v2, fetch_transaction_data: the block details of a block hash; {} when the
\* lookup fails
VizBlock ==
    /\ prog = "viz2" /\ pc = "z_block"
    /\ \E resp \in VizBlockResponses :
         /\ trace' = Append(trace, TxEvent("block", 0, resp.status))
         /\ block_data' = IF resp.status = HTTP_OK
                          THEN [block_time |-> resp.block_time]
                          ELSE EmptyBlock
    /\ pc' = "z_process"
    /\ UNCHANGED <<cvars, prog, ledger, page, served, result, norm, hvars, svars, tvars,
                   utxos_data, tx_data, inputs, outputs, tx_details, elements>>

\* v1: int(input_data['amount'][0]['quantity']) / 1_000_000 of one element
UtxoAmount(u) ==
    IF u.amount = <<>> THEN [exc |-> "IndexError", val |-> FZero]
    ELSE AdaCell(u.amount[1])

\* the (address, ada_amount) pairs of elements whose amounts are cells
Pairs(entries, cells, from) ==
    [i \in 1..Len(entries) |->
        [address |-> entries[i].address, ada_amount |-> cells[from + i].val]]

\* v1: the pairs of all inputs and of all outputs, or the exception of the
\* first element whose amount has none
Processed(utxos, cells) ==
    LET bad == {i \in DOMAIN cells : cells[i].exc # "none"}
    IN  IF bad # {}
        THEN [exc |-> cells[CHOOSE i \in bad : \A j \in bad : i <= j].exc,
              inputs |-> <<>>, outputs |-> <<>>]
        ELSE [exc |-> "none",
              inputs  |-> Pairs(utxos.inputs, cells, 0),
              outputs |-> Pairs(utxos.outputs, cells, Len(utxos.inputs))]

\* v1, process_utxo_data
process_utxo_data(utxos) ==
    Processed(utxos, [i \in 1..(Len(utxos.inputs) + Len(utxos.outputs)) |->
                        UtxoAmount((utxos.inputs \o utxos.outputs)[i])])

\* v2: except ValueError: ada_amount = 0
ZeroOnError(out) == [exc |-> "none", val |-> IF out.exc = "none" THEN out.val ELSE FZero]

\* v2, the try block of one element that has an amount
UtxoAmountZeroed(u) == ZeroOnError(AdaCell(u.amount[1]))

\* v2: 'if input_data.get('amount')': an element without amounts is left out
HasAmount(u) == u.amount # <<>>

\* v2: the pairs of the elements kept
ProcessedKept(ins, outs, cells) ==
    [exc |-> "none",
     inputs  |-> Pairs(ins, cells, 0),
     outputs |-> Pairs(outs, cells, Len(ins))]

\* v2, process_utxo_data: the elements whose 'amount' list is empty are left
\* out, an unparsable quantity counts as 0
process_utxo_data_v2(utxos) ==
    ProcessedKept(SelectSeq(utxos.inputs, HasAmount), SelectSeq(utxos.outputs, HasAmount),
                  [i \in 1..Len(SelectSeq(utxos.inputs \o utxos.outputs, HasAmount)) |->
                     UtxoAmountZeroed(SelectSeq(utxos.inputs \o utxos.outputs,
                                                HasAmount)[i])])

\* inputs, outputs = process_utxo_data(utxos_data)
VizProcess ==
    /\ prog \in VizProgs /\ pc = "z_process"
    /\ \E out \in {IF prog = "viz" THEN process_utxo_data(utxos_data)
                   ELSE process_utxo_data_v2(utxos_data)} :
           IF out.exc = "none"
           THEN /\ inputs' = out.inputs /\ outputs' = out.outputs
                /\ pc' = "z_format" /\ result' = result
           ELSE /\ result' = Raised(out.exc) /\ pc' = "raised"
                /\ UNCHANGED <<inputs, outputs>>
    /\ UNCHANGED <<cvars, prog, trace, ledger, page, served, norm, hvars, svars, tvars,
                   utxos_data, tx_data, block_data, tx_details, elements>>

\* strftime('%Y.%m.%d - %H.%M.%S') of a valid Unix time
Formatted == "yyyy.mm.dd - HH.MM.SS"

\* the details string: its date and its fee, or the exception of the fee
Details(date, fee) ==
    [exc |-> fee.exc, Date |-> date, Fee |-> [na |-> FALSE, val |-> fee.val]]

\* v1, format_transaction_details: fee = int(tx_data.get('fees', 0)) / 1_000_000
\* and the formatted 'block_time' if tx_data has one, else 'N/A'
format_transaction_details(txd) ==
    Details(IF txd.block_time.t = "int" THEN Formatted ELSE "N/A",
            AdaCell(IF txd.fees.t = "absent" THEN <<"0">> ELSE txd.fees.s))

\* v2: the fee of the details string: except ValueError: fee = 'N/A'
DetailsV2(date, fee) ==
    [exc |-> "none", Date |-> date,
     Fee |-> IF fee.exc = "none" THEN [na |-> FALSE, val |-> fee.val]
             ELSE [na |-> TRUE, val |-> FZero]]

\* v2, format_transaction_details: fee_str = tx_data.get('fee', '0'), 'N/A' on
\* ValueError; the date is formatted from block_data's 'block_time', else from
\* tx_data's, and is 'N/A' when neither has one
format_transaction_details_v2(txd, blk) ==
    DetailsV2(IF blk.block_time.t = "int" \/ txd.block_time.t = "int"
              THEN Formatted ELSE "N/A",
              AdaCell(IF txd.fee.t = "absent" THEN <<"0">> ELSE txd.fee.s))

\* tx_details = format_transaction_details(tx_data[, block_data])
VizFormat ==
    /\ prog \in VizProgs /\ pc = "z_format"
    /\ \E out \in {IF prog = "viz" THEN format_transaction_details(tx_data)
                   ELSE format_transaction_details_v2(tx_data, block_data)} :
           IF out.exc = "none"
           THEN /\ tx_details' = [Date |-> out.Date, Fee |-> out.Fee]
                /\ pc' = "z_elements" /\ result' = result
           ELSE /\ result' = Raised(out.exc) /\ pc' = "raised"
                /\ tx_details' = tx_details
    /\ UNCHANGED <<cvars, prog, trace, ledger, page, served, norm, hvars, svars, tvars,
                   utxos_data, tx_data, block_data, inputs, outputs, elements>>

\* the module level tx_id of each visualization script
TxId == IF prog = "viz"
        THEN "6c848a0ded8dd2e5918204ffda0ff805a04824648534033f4ec70b8eb7f98dfd"
        ELSE "847b4f3ad3285aaf77398d6374ff4a80d76fad71795fd1d3aee68604d5921c86"

\* the node identifier without its index
NodeIdShared(class, idx) == class

\* f'input_{idx}' and f'output_{idx}'
NodeId(class, idx) == class \o "_" \o ToString(idx)

\* the transaction node; of its label the model keeps the details
TxNode(id, details) ==
    [kind |-> "node", id |-> id, label |-> details, x |-> 300, y |-> 300,
     classes |-> "transaction"]

\* the node of the pair at index idx of enumerate(); of its label the model
\* keeps the address and the amount
UtxoNode(class, idx, entry, x) ==
    [kind |-> "node", id |-> NodeId(class, idx), label |-> entry,
     x |-> x, y |-> 100 + (idx * 100), classes |-> class]

\* an edge; its label is the amount
Edge(source, target, ada_amount) ==
    [kind |-> "edge", source |-> source, target |-> target, label |-> ada_amount]

\* the loop over enumerate(inputs): a node and its edge to the transaction
InputElements(id, ins) ==
    [i \in 1..(2 * Len(ins)) |->
        IF i % 2 = 1
        THEN UtxoNode("input", (i - 1) \div 2, ins[(i + 1) \div 2], 100)
        ELSE Edge(NodeId("input", (i - 2) \div 2), id, ins[i \div 2].ada_amount)]

\* the loop over enumerate(outputs): a node and the edge from the transaction
OutputElements(id, outs) ==
    [i \in 1..(2 * Len(outs)) |->
        IF i % 2 = 1
        THEN UtxoNode("output", (i - 1) \div 2, outs[(i + 1) \div 2], 500)
        ELSE Edge(id, NodeId("output", (i - 2) \div 2), outs[i \div 2].ada_amount)]

create_cytoscape_elements(id, ins, outs, details) ==
    <<TxNode(id, details)>> \o InputElements(id, ins) \o OutputElements(id, outs)

\* elements = create_cytoscape_elements(tx_id, inputs, outputs, tx_details)
VizElements ==
    /\ prog \in VizProgs /\ pc = "z_elements"
    /\ elements' = create_cytoscape_elements(TxId, inputs, outputs, tx_details)
    /\ pc' = "done"
    /\ UNCHANGED <<cvars, prog, trace, ledger, page, served, result, norm, hvars, svars, tvars,
                   utxos_data, tx_data, block_data, inputs, outputs, tx_details>>

(***************************************************************************)
(* ipfd_to_word.py: convert_markdown_to_file                               *)
(***************************************************************************)
\* what subprocess.run(["pandoc", ...], check=True) can do: return, raise
\* FileNotFoundError when there is no pandoc, raise CalledProcessError when
\* pandoc exits with a non-zero status
PandocOutcomes == {"ok", "missing", "error"}

\* e.stdout of the CalledProcessError: subprocess.run is called without
\* capture_output and without stdout=PIPE, so the attribute is None
CalledProcessErrorStdout == "None"

\* e.stdout.decode('utf-8')
decode(stream) == IF stream = "None" THEN "AttributeError" ELSE "none"

\* the try statement without its finally clause: the value returned, or the
\* exception that leaves it
convert(outcome) ==
    CASE outcome = "ok"      -> [exc |-> "none", val |-> "True"]
      [] outcome = "missing" -> [exc |-> "none", val |-> "False"]
      [] OTHER               -> IF decode(CalledProcessErrorStdout) = "none"
                                THEN [exc |-> "none", val |-> "False"]
                                ELSE [exc |-> decode(CalledProcessErrorStdout),
                                      val |-> "unset"]

\* the with block: NamedTemporaryFile(delete=False), write, name
ConvertWriteTemp ==
    /\ prog = "convert" /\ pc = "c_temp"
    /\ \E output_format \in {"docx", "pdf"} :
         trace' = Append(trace, Event("convert", output_format))
    /\ temp_md_file_path' = "exists"
    /\ pc' = "c_run"
    /\ UNCHANGED <<prog, ledger, page, served, result, norm, hvars, svars, tvars, zvars,
                   converted>>

\* finally: os.remove(temp_md_file_path)
Removed(path) == "removed"

\* the try statement: pandoc, the handlers, and the finally clause, which
\* runs on every way out
ConvertRun ==
    /\ prog = "convert" /\ pc = "c_run"
    /\ \E outcome \in PandocOutcomes :
         /\ trace' = Append(trace, Event("pandoc", outcome))
         /\ IF convert(outcome).exc = "none"
            THEN /\ converted' = convert(outcome).val
                 /\ pc' = "done" /\ result' = result
            ELSE /\ result' = Raised(convert(outcome).exc)
                 /\ pc' = "raised" /\ converted' = converted
    /\ temp_md_file_path' = Removed(temp_md_file_path)
    /\ UNCHANGED <<prog, ledger, page, served, norm, hvars, svars, tvars, zvars>>

(***************************************************************************)
(* The quantity normalisers on their own: an input is drawn, the           *)
(* normaliser of one of the two scripts is applied to it.                  *)
(***************************************************************************)
\* 0, 1, 500, 10^6, 123456789, 10^18, 2^53 + 1, 2^63 - 1, 2^63
RawSamples ==
    {<<"0">>, <<"1">>, <<"5", "0", "0">>,
     <<"1", "0", "0", "0", "0", "0", "0">>,
     <<"1", "2", "3", "4", "5", "6", "7", "8", "9">>,
     <<"1", "0", "0", "0", "0", "0", "0", "0", "0", "0", "0", "0", "0", "0", "0",
       "0", "0", "0", "0">>,
     <<"9", "0", "0", "7", "1", "9", "9", "2", "5", "4", "7", "4", "0", "9", "9",
       "3">>,
     <<"9", "2", "2", "3", "3", "7", "2", "0", "3", "6", "8", "5", "4", "7", "7",
       "5", "8", "0", "7">>,
     <<"9", "2", "2", "3", "3", "7", "2", "0", "3", "6", "8", "5", "4", "7", "7",
       "5", "8", "0", "8">>}

DecimalsSamples == {0, 6, 18}

NoNorm == [variant |-> "none", raw |-> <<>>, decimals |-> 0, out |-> FZero]

Normalize ==
    /\ prog = "normalize" /\ pc = "n_start"
    /\ norm' = [norm EXCEPT !.out =
                  IF norm.variant = "holders"
                  THEN HolderQuantity(norm.raw, norm.decimals)
                  ELSE TokenQuantity(norm.raw, norm.decimals)]
    /\ pc' = "done"
    /\ UNCHANGED <<cvars, zvars, tvars, prog, trace, ledger, page, served, result, hvars, svars>>

(***************************************************************************)
(* The specification.                                                      *)
(***************************************************************************)
NoTx == [inputs |-> <<>>, outputs |-> <<>>, fees |-> <<>>]

NoMetadata == [set |-> FALSE, metadata |-> "absent", decimals |-> JAbsent]

InitHolders ==
    /\ prog = "holders" /\ pc = "main"
    /\ ledger \in HolderLedgers
    /\ norm = NoNorm /\ keys = <<>> /\ tx = NoTx

InitStake ==
    /\ prog = "stake" /\ pc = "s_main"
    /\ ledger = <<>>
    /\ norm = NoNorm /\ tx = NoTx
    /\ keys \in {[i \in 1..n |-> i] : n \in 0..MaxKeys}

InitNormalize ==
    /\ prog = "normalize" /\ pc = "n_start"
    /\ ledger = <<>> /\ keys = <<>> /\ tx = NoTx
    /\ norm \in {[variant |-> v, raw |-> r, decimals |-> d, out |-> FZero] :
                   v \in {"holders", "tx"}, r \in RawSamples, d \in DecimalsSamples}

InitTx ==
    /\ prog \in TxProgs /\ pc = "t_tx"
    /\ ledger = <<>> /\ keys = <<>> /\ norm = NoNorm
    /\ tx \in TxShapes

InitConvert ==
    /\ prog = "convert" /\ pc = "c_temp"
    /\ ledger = <<>> /\ keys = <<>> /\ norm = NoNorm /\ tx = NoTx

InitViz ==
    /\ prog \in VizProgs /\ pc = "z_fetch"
    /\ ledger = <<>> /\ keys = <<>> /\ norm = NoNorm /\ tx = NoTx

Init ==
    /\ trace = <<>> /\ calls = <<>> /\ metadata = NoMetadata
    /\ page = 1 /\ served = <<>> /\ all_holders = <<>>
    /\ decimals = 0 /\ result = NoResult
    /\ key_idx = 1 /\ pending = <<>> /\ all_addresses_list = <<>> /\ output_data = <<>>
    /\ sender = Unbound /\ amounts = <<>>
    /\ inputs_details = <<>> /\ outputs_details = <<>> /\ tokens_moved = <<>>
    /\ transaction_info = None /\ saved = FALSE
    /\ utxos_data = None /\ tx_data = None /\ block_data = EmptyBlock
    /\ inputs = <<>> /\ outputs = <<>> /\ tx_details = NoDetails /\ elements = <<>>
    /\ temp_md_file_path = "none" /\ converted = "unset"
    /\ (InitHolders \/ InitStake \/ InitTx \/ InitViz \/ InitConvert \/ InitNormalize)

Next ==
    \/ MainGetDecimals
    \/ HoldersRequest
    \/ HoldersSleep
    \/ HoldersTable
    \/ StakeNextKey
    \/ StakeRequest
    \/ StakeBalance
    \/ StakeReturn
    \/ StakeSave
    \/ TxRequest
    \/ TxBlock
    \/ TxUtxos
    \/ TxInput
    \/ TxOutput
    \/ TxTokenMetadata
    \/ TxTokenDecimals
    \/ TxSimpleToken
    \/ TxFee
    \/ TxMain
    \/ VizFetch
    \/ VizBlock
    \/ VizProcess
    \/ VizFormat
    \/ VizElements
    \/ ConvertWriteTemp
    \/ ConvertRun
    \/ Normalize

Spec == Init /\ [][Next]_vars

(***************************************************************************)
(* The claims.                                                             *)
(***************************************************************************)
RECURSIVE ConcatBodies(_)
\* the bodies of a sequence of page responses, one after the other
ConcatBodies(rs) == IF rs = <<>> THEN <<>> ELSE Head(rs).body \o ConcatBodies(Tail(rs))

\* the elements accumulated by the pagination loop of the script that runs
Accumulated == IF prog = "holders" THEN all_holders
               ELSE [i \in 1..Len(all_addresses_list) |-> all_addresses_list[i].address]

\* the script is inside a pagination loop: a page request may follow
InLoop == pc \in {"h_request", "h_sleep", "s_request", "s_balance"}

\* the last page served is an empty success response
EndedByEmptyPage ==
    /\ served # <<>>
    /\ served[Len(served)].status = HTTP_OK /\ served[Len(served)].body = <<>>

\* the number of page requests in the trace
PageRequests == Cardinality({i \in 1..Len(trace) : trace[i].ev = "page"})

\* C1: when the upstream answers N non-empty success pages and then an empty
\* success page, the loop of get_token_holders and of fetch_addresses_for_stake
\* has accumulated the concatenation of the N pages in page order and in the
\* order inside each page, and has issued N + 1 page requests
C1_Concatenation ==
    (prog \in {"holders", "stake"} /\ EndedByEmptyPage) =>
        /\ \A i \in 1..(Len(served) - 1) :
              served[i].status = HTTP_OK /\ served[i].body # <<>>
        /\ Accumulated = ConcatBodies(served)
        /\ page = Len(served)
        /\ prog = "holders" => PageRequests = Len(served)

C1_Witness ==
    /\ prog = "stake" /\ pc = "s_return" /\ EndedByEmptyPage
    /\ Len(served) = 3 /\ Len(all_addresses_list) = 2

\* C2: when page 1 is a non-empty success and page 2 a non-success status, the
\* fetch ends with exactly the elements of page 1 and nothing is raised: the
\* holder table has the rows of page 1
C2_EarlyStop ==
    (/\ prog \in {"holders", "stake"} /\ Len(served) = 2
     /\ served[1].status = HTTP_OK /\ served[1].body # <<>>
     /\ served[2].status # HTTP_OK) =>
        /\ pc # "raised" /\ result.exc = "none"
        /\ Accumulated = served[1].body
        /\ (prog = "holders" /\ pc = "done") =>
              /\ Len(result.rows) = Len(served[1].body)
              /\ {result.rows[i].Address : i \in 1..Len(result.rows)}
                   = {served[1].body[i].address : i \in 1..Len(served[1].body)}

C2_Witness ==
    /\ prog = "holders" /\ pc = "done" /\ Len(served) = 2
    /\ Len(served[1].body) = 2 /\ served[2].status # HTTP_OK
    /\ Len(result.rows) = 2

\* C3: get_token_holders raises nothing, whatever the pages answer: once it has
\* issued a page request the script does not end in an exception
C3_NotFatal == ~(prog = "holders" /\ served # <<>> /\ pc = "raised")

\* C4: the page requests of a fetch carry the indices 1, 2, ... in order, and
\* every response before the last one was a non-empty success: no request
\* follows an empty page or a non-success status
C4_PageIndices ==
    prog \in {"holders", "stake"} =>
        /\ \A i \in 1..Len(served) : served[i].page = i
        /\ \A i \in 1..(Len(served) - 1) :
              served[i].status = HTTP_OK /\ served[i].body # <<>>
        /\ (served # <<>> /\ ~HoldersContinues(served[Len(served)])) => ~InLoop

C4_Witness ==
    /\ prog = "holders" /\ Len(served) = 3 /\ served[3].page = 3
    /\ served[3].status # HTTP_OK

\* C5: between two successive page requests of a fetch there is a delay step
C5_DelayBetweenPages ==
    \A i, j \in 1..Len(trace) :
        (/\ i < j /\ trace[i].ev = "page" /\ trace[j].ev = "page"
         /\ trace[j].arg = trace[i].arg + 1
         /\ \A k \in (i + 1)..(j - 1) : trace[k].ev # "page") =>
            \E k \in (i + 1)..(j - 1) : trace[k].ev = "sleep"

\* C6: for a successful asset response get_token_decimals returns 0 when the
\* 'metadata' key is absent, when 'metadata' is null, and when the metadata has
\* no 'decimals' or a null one; it returns d when 'decimals' is an integer d >= 0
C6_DecimalsDefault ==
    \A i \in 1..Len(calls) :
        LET resp == calls[i].resp
            out  == calls[i].out
        IN  resp.status = HTTP_OK =>
              /\ resp.metadata \in {"absent", "null"} => out = [exc |-> "none", val |-> 0]
              /\ (resp.metadata = "dict" /\ resp.decimals.t \in {"absent", "null"}) =>
                    out = [exc |-> "none", val |-> 0]
              /\ (resp.metadata = "dict" /\ resp.decimals.t = "int"
                    /\ resp.decimals.n >= 0) =>
                    out = [exc |-> "none", val |-> resp.decimals.n]

C6_Witness ==
    /\ prog = "holders" /\ pc = "h_request" /\ Len(calls) = 1
    /\ calls[1].resp.status = HTTP_OK /\ calls[1].resp.metadata = "null"
    /\ decimals = 0

\* the raw quantity string of the token unit of the transaction
RawOf(unit) == tx.outputs[unit[1]].amount[unit[2]].quantity

\* C7: a non-success status of the asset request makes get_token_decimals
\* return 0 without an exception; in single_transaction.py, for a transaction
\* that has an input, a token of which one of the two asset requests failed is
\* in tokens_moved with its raw quantity divided by 10^0
C7_FailedLookup ==
    /\ \A i \in 1..Len(calls) :
          calls[i].resp.status # HTTP_OK => calls[i].out = [exc |-> "none", val |-> 0]
    /\ (prog = "tx" /\ sender.bound) =>
          \A i \in 1..Len(trace) :
              (trace[i].ev = "asset" /\ trace[i].status # HTTP_OK) =>
                  \E j \in 1..Len(tokens_moved) :
                      /\ tokens_moved[j].Token = trace[i].arg
                      /\ tokens_moved[j].Quantity = TokenCell(RawOf(trace[i].arg), 0)

C7_Witness ==
    /\ prog = "tx" /\ pc = "done" /\ saved /\ Len(tokens_moved) = 2
    /\ \E i \in 1..(Len(trace) - 1) :
          /\ trace[i].ev = "asset" /\ trace[i].status = HTTP_OK
          /\ trace[i + 1].ev = "asset" /\ trace[i + 1].status # HTTP_OK
          /\ trace[i + 1].arg = trace[i].arg
    /\ \E i \in 1..Len(calls) : calls[i].resp.status # HTTP_OK

\* C8: get_token_decimals returns a non-negative integer for every response and
\* raises nothing
C8_NonNegative ==
    \A i \in 1..Len(calls) : calls[i].out.exc = "none" /\ calls[i].out.val >= 0

\* the integer nearest to x * 10^d, for a float x
ScaledBack(x, d) ==
    LET Back(n) ==
          IF x.e >= 0 THEN BShl(n, x.e)
          ELSE LET Half(h) == IF h.r = 1 THEN BAdd(h.q, BOne) ELSE h.q
               IN  With(BDivSmall(ShrSticky(n, (0 - x.e) - 1, FALSE).q, 2), Half)
    IN  IF x.m = <<>> THEN <<>> ELSE With(BMulPow10(x.m, d), Back)

\* C9: the adjusted quantity is raw / 10^d to d fractional digits without loss
\* of exactness, for raw up to 2^63 and d up to 18: scaled back by 10^d it is raw
C9_Exact ==
    (prog = "normalize" /\ pc = "done") =>
        ScaledBack(norm.out, norm.decimals) = PyIntStr(norm.raw).mag

\* x < y for floats >= 0
FLess(x, y) ==
    IF y.m = <<>> THEN FALSE
    ELSE IF x.m = <<>> THEN TRUE
    ELSE IF x.e # y.e THEN x.e < y.e
    ELSE BCmp(x.m, y.m) < 0

\* the index in fetch order of the holder with the address a
FetchIndex(a) == CHOOSE i \in 1..Len(all_holders) : all_holders[i].address = a

\* C10: the holder table is ordered by quantity descending, holders of equal
\* quantity are in fetch order, and the table is a permutation of the holders
C10_StableDescending ==
    (prog = "holders" /\ pc = "done") =>
        /\ Len(result.rows) = Len(all_holders)
        /\ {result.rows[i].Address : i \in 1..Len(result.rows)}
             = {all_holders[i].address : i \in 1..Len(all_holders)}
        /\ \A i, j \in 1..Len(result.rows) :
              i < j =>
                /\ ~FLess(result.rows[i].Quantity, result.rows[j].Quantity)
                /\ result.rows[i].Quantity = result.rows[j].Quantity =>
                      FetchIndex(result.rows[i].Address)
                        < FetchIndex(result.rows[j].Address)

\* the balance lookups of the trace, in order
BalanceEvents == SelectSeq(trace, LAMBDA e : e.ev = "balance")

\* the addresses the listing of the key just returned has served, in order
KeyAddresses == ConcatBodies(served)

\* C11: a failed address listing or a failed balance lookup aborts nothing: the
\* run raises only out of a successful balance response; once a key has
\* returned, every address its listing served is recorded under that key,
\* whatever happened to the keys before it; no looked up address is dropped,
\* and an address whose balance lookup failed is recorded with ada_amount 0
C11_FailureIsolated ==
    prog = "stake" =>
        /\ pc = "raised" =>
              /\ trace[Len(trace)].ev = "balance"
              /\ trace[Len(trace)].status = HTTP_OK
        /\ (pc = "s_main" /\ key_idx > 1) =>
              \A i \in 1..Len(KeyAddresses) :
                  \E j \in 1..Len(output_data) :
                      /\ output_data[j].stake_pool_address = keys[key_idx - 1]
                      /\ output_data[j].addresses = KeyAddresses[i]
        /\ pc \in {"s_main", "done"} =>
              /\ Len(output_data) = Len(BalanceEvents)
              /\ \A i \in 1..Len(BalanceEvents) :
                    BalanceEvents[i].status # HTTP_OK =>
                        \E j \in 1..Len(output_data) :
                            /\ output_data[j].addresses = BalanceEvents[i].arg
                            /\ output_data[j].ada_amount = FZero

C11_Witness ==
    /\ prog = "stake" /\ pc = "done" /\ Len(keys) = 2
    /\ trace[1].ev = "page" /\ trace[1].status # HTTP_OK
    /\ Len(output_data) = 2
    /\ \A j \in 1..2 : output_data[j].stake_pool_address = keys[2]
    /\ output_data[1].ada_amount = FZero /\ output_data[2].ada_amount # FZero
    /\ BalanceEvents[1].status # HTTP_OK

\* C12: the output is flat and in input order of the stake keys: its records
\* are, one for one and in the same order, the balance lookups issued; the
\* stake keys of the records never go back to an earlier key; the records of
\* the key that has just returned are the end of the output and list the
\* addresses in page order and in the order inside each page
C12_FlatInKeyOrder ==
    (prog = "stake" /\ pc \in {"s_main", "done"}) =>
        /\ [i \in 1..Len(output_data) |-> output_data[i].addresses]
             = [i \in 1..Len(BalanceEvents) |-> BalanceEvents[i].arg]
        /\ \A i, j \in 1..Len(output_data) :
              i < j => output_data[i].stake_pool_address
                         <= output_data[j].stake_pool_address
        /\ key_idx > 1 =>
              /\ Len(KeyAddresses) <= Len(output_data)
              /\ \A i \in 1..Len(KeyAddresses) :
                    LET rec == output_data[Len(output_data) - Len(KeyAddresses) + i]
                    IN  /\ rec.addresses = KeyAddresses[i]
                        /\ rec.stake_pool_address = keys[key_idx - 1]

C12_Witness ==
    /\ prog = "stake" /\ pc = "done" /\ Len(keys) = 2 /\ Len(output_data) = 2
    /\ output_data[1].stake_pool_address = keys[1]
    /\ output_data[2].stake_pool_address = keys[2]
    /\ Len(BalanceEvents) = 2

RECURSIVE FlatTokens(_)
\* the elements after the first (ADA) one of the value lists of the outputs,
\* in output order and then in value list order, each with its output's address
FlatTokens(outs) ==
    IF outs = <<>> THEN <<>>
    ELSE [j \in 1..Len(Head(outs).amount) |->
            [unit |-> Head(outs).amount[j].unit, address |-> Head(outs).address]]
         \o FlatTokens(Tail(outs))

\* C13: in both tabular assemblers tokens_moved grows into exactly one entry
\* per token element of the outputs, in output order and then in value list
\* order: it is always the beginning of that list, and the whole of it in a
\* returned record; the output address and the output stake key of an entry are
\* those recorded for the output that carries the token; when the transaction
\* has a single input, the input address and stake key of every entry are that
\* input's
C13_OneEntryPerToken ==
    prog \in TxProgs =>
        LET expected == FlatTokens(tx.outputs)
        IN  /\ Len(tokens_moved) <= Len(expected)
            /\ \A i \in 1..Len(tokens_moved) :
                  LET entry == tokens_moved[i]
                      k     == entry.Token[1]
                  IN  /\ entry.Token = expected[i].unit
                      /\ entry.Output_Address = expected[i].address
                      /\ k <= Len(outputs_details)
                      /\ entry.Output_Address = outputs_details[k].Address
                      /\ entry.Output_Stake_Key = outputs_details[k].Stake_Key
                      /\ Len(tx.inputs) = 1 =>
                            /\ entry.Input_Address = tx.inputs[1]
                            /\ entry.Input_Stake_Key = inputs_details[1].Stake_Key
            /\ ~transaction_info.none =>
                  /\ transaction_info.tokens_moved = tokens_moved
                  /\ Len(tokens_moved) = Len(expected)

C13_Witness ==
    /\ prog = "tx_simple" /\ pc = "done" /\ saved
    /\ Len(tx.inputs) = 1 /\ Len(tx.outputs) = 2 /\ Len(tx.outputs[2].amount) = 2
    /\ Len(transaction_info.tokens_moved) = 2
    /\ \A i \in 1..2 :
          /\ transaction_info.tokens_moved[i].Output_Address = tx.outputs[2].address
          /\ transaction_info.tokens_moved[i].Input_Address = tx.inputs[1]

\* the stake key lookups of the trace, in order
AddressEvents == SelectSeq(trace, LAMBDA e : e.ev = "address")

\* C14: in both tabular assemblers the UTXO lines recorded are, in order, those
\* of the addresses looked up; the line of an address whose lookup failed, or
\* whose response has no 'stake_address', carries the stake key "N/A"; no
\* lookup outcome ends the assembly (only an unparsable quantity keeps the line
\* of the last address looked up from being recorded); in a returned record
\* inputs_details and outputs_details are as long as the inputs and the outputs
C14_StakeKeySentinel ==
    prog \in TxProgs =>
        LET details == inputs_details \o outputs_details
        IN  /\ \/ Len(details) = Len(AddressEvents)
               \/ /\ pc = "raised" /\ result.exc = "ValueError"
                  /\ Len(details) = Len(AddressEvents) - 1
            /\ \A i \in 1..Len(details) :
                  /\ details[i].Address = AddressEvents[i].arg
                  /\ (\/ AddressEvents[i].status # HTTP_OK
                      \/ AddressEvents[i].stake_address = "absent") =>
                        details[i].Stake_Key = "N/A"
            /\ ~transaction_info.none =>
                  /\ Len(transaction_info.inputs_details) = Len(tx.inputs)
                  /\ Len(transaction_info.outputs_details) = Len(tx.outputs)

C14_Witness ==
    /\ prog = "tx" /\ pc = "done" /\ saved
    /\ Len(tx.inputs) = 1 /\ Len(tx.outputs) = 2
    /\ AddressEvents[1].status # HTTP_OK
    /\ AddressEvents[2].status = HTTP_OK /\ AddressEvents[2].stake_address = "absent"
    /\ AddressEvents[3].status = HTTP_OK /\ AddressEvents[3].stake_address = "str"
    /\ transaction_info.inputs_details[1].Stake_Key = "N/A"
    /\ transaction_info.outputs_details[1].Stake_Key = "N/A"
    /\ transaction_info.outputs_details[2].Stake_Key = "stake1u"

\* the trace has a request ev that was answered by the status code 200
Succeeded(ev) == \E i \in 1..Len(trace) : trace[i].ev = ev /\ trace[i].status = HTTP_OK

\* C15: in both tabular assemblers, when the transaction lookup is answered by
\* a non-success status, fetch_transaction_details returns None and the run
\* ends without a write; nothing is ever written for None; a record is
\* returned only after the transaction, block and UTXO lookups all succeeded
C15_NoResultNoWrite ==
    prog \in TxProgs =>
        /\ (trace # <<>> /\ trace[1].status # HTTP_OK) =>
              /\ trace[1].ev = "tx"
              /\ pc \in {"t_main", "done"}
              /\ transaction_info.none /\ ~saved
        /\ saved => ~transaction_info.none
        /\ (pc = "done" /\ transaction_info.none) => ~saved
        /\ ~transaction_info.none =>
              Succeeded("tx") /\ Succeeded("block") /\ Succeeded("utxos")

C15_Witness ==
    /\ prog = "tx_simple" /\ pc = "done"
    /\ Len(trace) = 1 /\ trace[1].ev = "tx" /\ trace[1].status # HTTP_OK
    /\ transaction_info = None /\ ~saved

\* the block lookup of the trace gave no timestamp: it failed, or the block
\* it returned has no 'time'
BlockWithoutTime ==
    \E i \in 1..Len(trace) :
        /\ trace[i].ev = "block"
        /\ trace[i].status # HTTP_OK \/ ~trace[i].time

\* C16: a timestamp that is not available defaults the date to "N/A" and
\* nothing fails: a tabular assembler whose block lookup gave no timestamp
\* raises no KeyError and, the other top-level lookups having succeeded, ends
\* with a record whose date is "N/A"; the details string of the visualization
\* scripts has the date "N/A" when neither block_data nor tx_data has a
\* 'block_time'
C16_TimestampDefault ==
    /\ (prog \in TxProgs /\ BlockWithoutTime) =>
          /\ result.exc # "KeyError"
          /\ pc = "done" =>
                /\ ~transaction_info.none
                /\ transaction_info.date = "N/A"
    /\ (prog \in VizProgs /\ pc = "done" /\ tx_data # None) =>
          ((tx_data.block_time.t # "int" /\ block_data.block_time.t # "int")
              => tx_details.Date = "N/A")

\* C17: a quantity string that is no number costs at most its own record: the
\* stake key aggregator, the assembler of transaction.py and the visualization
\* scripts never end in a ValueError, and the pairs of
\* transaction_vizualization-v2.py are those of all elements that have an
\* amount, the amount of an element with an unparsable quantity being 0
C17_UnparsableIsolated ==
    /\ prog \in {"stake", "tx_simple", "viz", "viz2"} => result.exc # "ValueError"
    /\ (prog = "viz2" /\ pc \in {"z_format", "done"} /\ utxos_data # None) =>
          LET kept == SelectSeq(utxos_data.inputs, HasAmount)
                        \o SelectSeq(utxos_data.outputs, HasAmount)
              got  == inputs \o outputs
          IN  /\ Len(got) = Len(kept)
              /\ \A i \in 1..Len(kept) :
                    /\ got[i].address = kept[i].address
                    /\ (got[i].ada_amount = FZero) <=> ~AllDigits(kept[i].amount[1])

\* C18: no module level variable is written by a call of the metadata resolver
\* or of an aggregator: the module level name 'metadata' of token_holders.py
\* stays unset; and what a call of get_token_decimals returns depends on the
\* response it received only
C18_NoSharedState ==
    /\ metadata = NoMetadata
    /\ \A i, j \in 1..Len(calls) :
          calls[i].resp = calls[j].resp => calls[i].out = calls[j].out

\* the Lovelace that the ADA amounts of the model stand for: each amount
\* multiplied by 10^6 and rounded to the nearest integer, computed once
FeeBacks ==
    {[x |-> c.out.val, back |-> ScaledBack(c.out.val, AdaDecimals)] :
        c \in {d \in AdaCells : d.out.exc = "none"}}

FeeBack(x) == (CHOOSE c \in FeeBacks : c.x = x).back

\* the integers of the fee strings of the model, computed once
Lovelaces == {[q |-> q, mag |-> PyIntStr(q).mag] : q \in {FeesField(0), FeesField(1)}}

Lovelace(q) == (CHOOSE c \in Lovelaces : c.q = q).mag

\* C19: the fee reported is the 'fees' of the upstream transaction object, in
\* Lovelace, divided by 10^6: in the record of both tabular assemblers, and in
\* the details string of both visualization scripts when the transaction
\* object has its 'fees'
C19_FeeScaled ==
    /\ (prog \in TxProgs /\ ~transaction_info.none) =>
          FeeBack(transaction_info.transaction_fee) = Lovelace(tx.fees)
    /\ (prog \in VizProgs /\ pc = "done" /\ tx_data # None /\ tx_data.fees.t = "str") =>
          /\ ~tx_details.Fee.na
          /\ FeeBack(tx_details.Fee.val) = Lovelace(tx_data.fees.s)

\* the positions of the asset-metadata requests in the trace
AssetRequests == {i \in 1..Len(trace) : trace[i].ev = "asset"}

\* C20: the holder run issues exactly one asset-metadata request, before every
\* holders-page request and none during pagination; the decimals it yields
\* are those applied to the quantity of every holder of the table
C20_DecimalsResolvedOnce ==
    (prog = "holders" /\ pc # "main") =>
        /\ AssetRequests = {1} /\ Len(calls) = 1
        /\ \A i \in 1..Len(trace) : trace[i].ev = "page" => i > 1
        /\ pc # "raised" => decimals = calls[1].out.val
        /\ pc = "done" =>
              \A i \in 1..Len(result.rows) :
                  \E j \in 1..Len(all_holders) :
                      /\ all_holders[j].address = result.rows[i].Address
                      /\ result.rows[i].Quantity =
                            QuantityCell(all_holders[j].quantity, calls[1].out.val)

C20_Witness ==
    /\ prog = "holders" /\ pc = "done"
    /\ Cardinality({i \in 1..Len(trace) : trace[i].ev = "page"}) >= 3
    /\ calls[1].out.val > 0
    /\ Len(result.rows) >= 2
    /\ \E i, j \in 1..Len(result.rows) :
          result.rows[i].Quantity # result.rows[j].Quantity

\* the top-level requests of the transaction assembler
TopLevelEvents == {"tx", "block", "utxos"}

\* C21: the tabular assemblers issue their top-level requests in the order
\* transaction, block, UTXO set, each one once and before every stake-key and
\* asset lookup; a non-success status on one of them is the last request of
\* the run, and the assembly returns None
C21_ShortCircuit ==
    prog \in TxProgs =>
        /\ \A i \in 1..Len(trace) :
              /\ i = 1 => trace[i].ev = "tx"
              /\ i = 2 => trace[i].ev = "block"
              /\ i = 3 => trace[i].ev = "utxos"
              /\ i > 3 => trace[i].ev \in {"address", "asset"}
              /\ (trace[i].ev \in TopLevelEvents /\ trace[i].status # HTTP_OK) =>
                    /\ i = Len(trace)
                    /\ transaction_info = None
                    /\ pc \in {"t_main", "done"}

C21_Witness ==
    /\ prog \in TxProgs /\ pc = "done"
    /\ Len(trace) = 3 /\ trace[3].ev = "utxos" /\ trace[3].status # HTTP_OK
    /\ Len(tx.inputs) >= 1
    /\ \E k \in 1..Len(tx.outputs) : tx.outputs[k].amount # <<>>
    /\ transaction_info = None /\ ~saved

\* C22: every token movement carries the address and the stake key of the last
\* input of the transaction, in UTXO input order; a transaction without inputs
\* whose outputs carry tokens is assembled too, the input of its token
\* movements being a defined value: the unbound sender raises nothing
C22_LastInputSender ==
    prog \in TxProgs =>
        /\ \A i \in 1..Len(tokens_moved) :
              /\ Len(tx.inputs) >= 1
              /\ tokens_moved[i].Input_Address = tx.inputs[Len(tx.inputs)]
              /\ tokens_moved[i].Input_Stake_Key =
                    inputs_details[Len(tx.inputs)].Stake_Key
        /\ Len(tx.inputs) = 0 => result.exc # "UnboundLocalError"

\* the positions of the nodes and of the edges of the element list
NodePositions == {i \in 1..Len(elements) : elements[i].kind = "node"}

EdgePositions == {i \in 1..Len(elements) : elements[i].kind = "edge"}

\* the element list has exactly one node with this id, class and position
OneNode(id, class, x, y) ==
    Cardinality({i \in NodePositions :
                    /\ elements[i].id = id /\ elements[i].classes = class
                    /\ elements[i].x = x /\ elements[i].y = y}) = 1

\* the element list has exactly one edge between these two ids
OneEdge(source, target) ==
    Cardinality({i \in EdgePositions :
                    elements[i].source = source /\ elements[i].target = target}) = 1

Outcome == trace[Len(trace)].arg

\* C24: convert_markdown_to_file returns True when pandoc succeeds and False
\* when pandoc is missing or exits with an error, no exception escapes, and
\* the temporary markdown file is removed when the call ends
C24_OutcomeAndCleanup ==
    (prog = "convert" /\ pc \notin {"c_temp", "c_run"}) =>
        /\ pc = "done" /\ result.exc = "none"
        /\ converted = IF Outcome = "ok" THEN "True" ELSE "False"
        /\ temp_md_file_path = "removed"

====
